---------------------------- MODULE Spec2Model ----------------------------
(***************************************************************************)
(* Model of the two MCP tutorial notebooks of ag2:                         *)
(*   - mcp_server.py, the server script written out by mcp_client.ipynb    *)
(*     (tools add / multiply, resource get_server_file, the __main__       *)
(*     block that parses the transport argument);                          *)
(*   - the MCPProxy stub and the proxy-generation cell of the proxy        *)
(*     notebook;                                                           *)
(*   - the client cells (async with transport, ClientSession; initialize;  *)
(*     list tools / call tool / toolkit + agent run; scoped release).      *)
(* The MCP SDK, argparse and the agent framework are the environment: an   *)
(* awaited SDK call returns, raises, or (with a read timeout) times out.   *)
(***************************************************************************)
EXTENDS Integers, Sequences, FiniteSets, TLC

VARIABLES
    \* ---- mcp_server.py process
    srvArgv,        \* sys.argv[1:] the process was started with
    srvState,       \* "not_started" | "running" | "exited"
    srvExit,        \* exit status of an exited process (argparse: 0 help, 2 error)
    runTransport,   \* the transport mcp.run was called with, "none" if never called
    lastReq,        \* the last request the running server handled
    prevReq,        \* the request it handled before that one
    lastResp,       \* the handler's answer to lastReq
    files,          \* the module-level dict files of mcp_server.py
    \* ---- MCPProxy stub / proxy generation cell
    fs,             \* the directory mcp_whatsapp: [exists, entries], an entry
                    \* being [name, by]: by is the cell run that wrote it, 0 if older
    objects,        \* heap of MCPProxy instances, in creation order
    ret,            \* index in objects of the instance the last create returned, 0 if none
    lastArgs,       \* arguments of the last MCPProxy.create call
    proxyCalls,     \* number of MCPProxy.create calls made
    genRuns,        \* number of runs of the proxy generation cell
    genErr,         \* whether the last run of the generation cell raised
    fsBefore,       \* the directory as the last run of the generation cell found it
    \* ---- client cells
    cell,           \* the cell being run, "none" when the kernel is idle
    pc,             \* position in the cell
    transport,      \* "none" | "open" | "closed"
    session,        \* "none" | "open" | "initialized" | "closed"
    readTimeout,    \* read_timeout_seconds the session was constructed with
    pending,        \* the awaited request, "none" when no request is in flight
    waited,         \* seconds the pending request has been awaited
    err,            \* the exception propagating out of the cell, "none" if none
    trace,          \* steps the cell has performed, in order
    toolkit,        \* "none" | "created" | "registered"
    turns,          \* conversation turns the agent run has performed
    out,            \* lines the cell printed
    runs,           \* number of client cells started so far
    \* ---- objects the kernel's names are bound to (they outlive a cell)
    transportObj,   \* identity of the transport bound to read, write / streams, 0 if unbound
    sessionObj,     \* identity of the ClientSession bound to session, 0 if unbound
    sessionOn,      \* identity of the transport sessionObj was constructed on
    nextId,         \* the last object identity handed out
    earlier         \* identities of the transports and sessions of earlier cell runs

srvVars == <<srvArgv, srvState, srvExit, runTransport, lastReq, prevReq, lastResp,
             files>>
genVars == <<genRuns, genErr, fsBefore>>
proxyVars == <<fs, objects, ret, lastArgs, proxyCalls, genVars>>
objVars == <<transportObj, sessionObj, sessionOn, nextId, earlier>>
cellVars == <<cell, pc, transport, session, readTimeout, pending, waited, err,
              trace, toolkit, turns, out, runs, objVars>>
vars == <<srvVars, proxyVars, cellVars>>

-----------------------------------------------------------------------------
(* Bounds of the model *)

\* largest absolute value of the small integers tools are invoked with
MaxInt == 2
\* longest command line the server is started with
MaxArgs == 2

\* tool arguments: a small range around zero and the spec's literal operands
Ints == (-MaxInt .. MaxInt) \cup {3, 123223, 456789}
\* operands of multiply: products stay inside the model checker's integers
SmallInts == (-MaxInt .. MaxInt) \cup {3}

-----------------------------------------------------------------------------
(* mcp_server.py : tools and resource *)

add_wrong(a, b) == a - b

\* def add(a: int, b: int) -> int: return a + b   (Python ints are unbounded)
add(a, b) == a + b

multiply_as_add(a, b) == a + b

\* def multiply(a: int, b: int) -> int: return a * b
multiply(a, b) == a * b

\* files = {"ag2": "AG has released 0.8.5 version on 2025-04-03"}
files_literal == [n \in {"ag2"} |-> "AG has released 0.8.5 version on 2025-04-03"]

\* resource names requested of the server
Names == {"ag2", "unknown", "mcp_server.py", ""}

\* a handler's outcome: an ordinary return value, or a raised exception
Returned(v) == [raised |-> FALSE, value |-> v]
Raised(e) == [raised |-> TRUE, value |-> e]

get_server_file_keyerror(name) ==
    IF name \in DOMAIN files THEN Returned(files[name]) ELSE Raised("KeyError")

get_server_file_default(name) == Returned("File not found: " \o name)

\* return files.get(name, f"File not found: {name}")
get_server_file(name) ==
    IF name \in DOMAIN files
        THEN Returned(files[name])
        ELSE Returned("File not found: " \o name)

NoReq == [kind |-> "none"]

-----------------------------------------------------------------------------
(* mcp_server.py : __main__ *)

\* tokens a command line is made of
Tokens == {"stdio", "sse", "streamable-http", "http", "-h"}

ArgvSet == UNION {[1..n -> Tokens] : n \in 0..MaxArgs}

choices_with_http == {"stdio", "sse", "streamable-http"}

\* parser.add_argument("transport", choices=["stdio", "sse"], ...)
choices == {"stdio", "sse"}

\* what the help string and the notebook's text announce
DocumentedTransports == {"stdio", "sse", "streamable-http"}

\* parser.parse_args() on one positional with choices, plus argparse's
\* default -h: tokens are consumed left to right; -h prints help and exits
\* 0; the first positional is checked against choices (exit 2 when not a
\* choice); a missing positional or a left-over one exits 2.
RECURSIVE scan(_, _, _, _)
scan(argv, i, t, extras) ==
    IF i > Len(argv)
        THEN IF t = "none" \/ extras
                 THEN [exit |-> TRUE, code |-> 2, transport |-> "none"]
                 ELSE [exit |-> FALSE, code |-> 0, transport |-> t]
    ELSE IF argv[i] = "-h"
        THEN [exit |-> TRUE, code |-> 0, transport |-> "none"]
    ELSE IF t = "none"
        THEN IF argv[i] \in choices
                 THEN scan(argv, i + 1, argv[i], extras)
                 ELSE [exit |-> TRUE, code |-> 2, transport |-> "none"]
    ELSE scan(argv, i + 1, t, TRUE)

parse_args(argv) == scan(argv, 1, "none", FALSE)

\* python mcp_server.py <argv>: parse the arguments, then mcp.run(transport=...)
Main(argv) ==
    /\ srvState = "not_started"
    /\ srvArgv' = argv
    /\ LET args == parse_args(argv) IN
         IF args.exit
             THEN /\ srvState' = "exited"
                  /\ srvExit' = args.code
                  /\ runTransport' = "none"
             ELSE /\ srvState' = "running"
                  /\ srvExit' = srvExit
                  /\ runTransport' = args.transport
    /\ UNCHANGED <<lastReq, prevReq, lastResp, files, proxyVars, cellVars>>

\* a tools/call request for add reaches the running server
HandleAdd(a, b) ==
    /\ srvState = "running"
    /\ lastReq' = [kind |-> "tool", name |-> "add", a |-> a, b |-> b]
    /\ prevReq' = lastReq
    /\ lastResp' = Returned(add(a, b))
    /\ UNCHANGED <<srvArgv, srvState, srvExit, runTransport, files, proxyVars, cellVars>>

\* a tools/call request for multiply reaches the running server
HandleMultiply(a, b) ==
    /\ srvState = "running"
    /\ lastReq' = [kind |-> "tool", name |-> "multiply", a |-> a, b |-> b]
    /\ prevReq' = lastReq
    /\ lastResp' = Returned(multiply(a, b))
    /\ UNCHANGED <<srvArgv, srvState, srvExit, runTransport, files, proxyVars, cellVars>>

HandleReadResource_pop(name) ==
    /\ srvState = "running"
    /\ lastReq' = [kind |-> "resource", scheme |-> "server-file", name |-> name]
    /\ prevReq' = lastReq
    /\ lastResp' = get_server_file(name)
    /\ files' = [n \in DOMAIN files \ {name} |-> files[n]]
    /\ UNCHANGED <<srvArgv, srvState, srvExit, runTransport, proxyVars, cellVars>>

\* a resources/read request for server-file://<name> reaches the running server
HandleReadResource(name) ==
    /\ srvState = "running"
    /\ lastReq' = [kind |-> "resource", scheme |-> "server-file", name |-> name]
    /\ prevReq' = lastReq
    /\ lastResp' = get_server_file(name)
    /\ UNCHANGED <<srvArgv, srvState, srvExit, runTransport, files, proxyVars, cellVars>>

ServerNext ==
    \/ \E argv \in ArgvSet : Main(argv)
    \/ \E a \in Ints, b \in Ints : HandleAdd(a, b)
    \/ \E a \in SmallInts, b \in SmallInts : HandleMultiply(a, b)
    \/ \E name \in Names : HandleReadResource(name)

-----------------------------------------------------------------------------
(* MCPProxy stub and the proxy generation cell *)

\* most MCPProxy instances created in one behaviour
MaxObjects == 2
\* most runs of the generation cell in one behaviour
MaxGenRuns == 2

Urls == {"https://dev.infobip.com/openapi/products/whatsapp.json",
         "http://localhost/openapi.json"}
Paths == {"mcp_whatsapp", "..."}
ServerLists == {<<>>, <<[url |-> "https://api.infobip.com"]>>}

\* entries found in mcp_whatsapp before the generation cell runs
OldEntries == {"stale.py", "main_tmp.py"}
\* entries the external generator may write
GeneratedEntries == {"main_tmp.py"}

MCPProxy_swapped(openapi_url, client_source_path, servers) ==
    [openapi_url |-> client_source_path,
     client_source_path |-> openapi_url,
     servers |-> servers]

\* MCPProxy.__init__: stores the three arguments
MCPProxy(openapi_url, client_source_path, servers) ==
    [openapi_url |-> openapi_url,
     client_source_path |-> client_source_path,
     servers |-> servers]

\* MCPProxy.create(openapi_url, client_source_path, servers): return MCPProxy(...)
create(openapi_url, client_source_path, servers) ==
    /\ proxyCalls < MaxObjects
    /\ objects' = Append(objects, MCPProxy(openapi_url, client_source_path, servers))
    /\ ret' = Len(objects) + 1
    /\ lastArgs' = <<openapi_url, client_source_path, servers>>
    /\ proxyCalls' = proxyCalls + 1
    /\ UNCHANGED <<fs, genVars, srvVars, cellVars>>

\* the entries named names, written by cell run n
Stamp(names, n) == {[name |-> x, by |-> n] : x \in names}

\* the names of the entries of a directory
NamesOf(d) == {e.name : e \in d.entries}

rmtree_skipped(d) == d

\* shutil.rmtree(mcp_whatsapp_path, ignore_errors=True): the tree is removed;
\* an absent directory is the error that is ignored
rmtree(d) == [exists |-> FALSE, entries |-> {}]

\* mcp_whatsapp_path.mkdir(parents=True, exist_ok=True)
mkdir(d) == IF d.exists THEN d ELSE [exists |-> TRUE, entries |-> {}]

\* the generation cell: rmtree, mkdir, then the imported (external)
\* MCPProxy.create, which writes the generated entries, or raises having
\* written some of them; assert mcp_whatsapp_path.exists()
GenerateProxyCell(written) ==
    /\ genRuns < MaxGenRuns
    /\ genRuns' = genRuns + 1
    /\ fsBefore' = fs
    /\ genErr' = (written # GeneratedEntries)
    /\ LET fresh == mkdir(rmtree(fs)) IN
         fs' = [fresh EXCEPT !.entries = @ \cup Stamp(written, genRuns + 1)]
    /\ UNCHANGED <<objects, ret, lastArgs, proxyCalls, srvVars, cellVars>>

ProxyNext ==
    \/ \E u \in Urls, p \in Paths, s \in ServerLists : create(u, p, s)
    \/ \E written \in SUBSET GeneratedEntries : GenerateProxyCell(written)

-----------------------------------------------------------------------------
(* Client cells *)

\* most client cells run in one behaviour
MaxRuns == 2
\* longest a request without a read timeout is followed, in seconds
MaxWait == 31

\* read_timeout_seconds=timedelta(seconds=30)
ReadTimeoutSeconds == 30
\* max_turns=2
max_turns == 2

a_run_args_defaults == [max_turns |-> max_turns + 1, user_input |-> TRUE]

\* agent.a_run(message=..., tools=toolkit.tools, max_turns=2, user_input=False)
a_run_args == [max_turns |-> max_turns, user_input |-> FALSE]

\* the client cells of the two notebooks
CellIds == {"client_stdio", "client_sse",
            "proxy_stdio_tools", "proxy_stdio", "proxy_sse", "proxy_stdio_env"}

\* stdio_client(server_params) or sse_client(url=...)
TransportOf(c) == IF c \in {"client_sse", "proxy_sse"} THEN "sse" ELSE "stdio"

\* the cell's body: print_available_tools + call_tool, or create_toolkit_and_run
BodyOf(c) == IF c = "proxy_stdio_tools" THEN "tools" ELSE "toolkit"

NoTimeout == [set |-> FALSE, seconds |-> 0]

read_timeout_seconds_unset(c) == NoTimeout

\* ClientSession(read, write, read_timeout_seconds=timedelta(seconds=30)) in
\* the stdio cells, ClientSession(*streams) in the sse cells
read_timeout_seconds(c) ==
    IF TransportOf(c) = "stdio"
        THEN [set |-> TRUE, seconds |-> ReadTimeoutSeconds]
        ELSE NoTimeout

NextStep_no_initialize(c, step) ==
    CASE step = "enter_transport" -> "enter_session"
      [] step = "enter_session" ->
            IF BodyOf(c) = "tools" THEN "list_tools" ELSE "create_toolkit"
      [] step = "initialize" -> "exit_session"
      [] step = "list_tools" -> "call_tool"
      [] step = "call_tool" -> "initialize"
      [] step = "create_toolkit" -> "register_for_llm"
      [] step = "register_for_llm" -> "a_run"
      [] step = "a_run" -> "process"
      [] step = "process" -> "initialize"

NextStep_run_before_register(c, step) ==
    CASE step = "enter_transport" -> "enter_session"
      [] step = "enter_session" -> "initialize"
      [] step = "initialize" ->
            IF BodyOf(c) = "tools" THEN "list_tools" ELSE "create_toolkit"
      [] step = "list_tools" -> "call_tool"
      [] step = "call_tool" -> "exit_session"
      [] step = "create_toolkit" -> "a_run"
      [] step = "a_run" -> "process"
      [] step = "process" -> "register_for_llm"
      [] step = "register_for_llm" -> "exit_session"

\* the statement that follows a completed statement of the cell
NextStep(c, step) ==
    CASE step = "enter_transport" -> "enter_session"
      [] step = "enter_session" -> "initialize"
      [] step = "initialize" ->
            IF BodyOf(c) = "tools" THEN "list_tools" ELSE "create_toolkit"
      [] step = "list_tools" -> "call_tool"
      [] step = "call_tool" -> "exit_session"
      [] step = "create_toolkit" -> "register_for_llm"
      [] step = "register_for_llm" -> "a_run"
      [] step = "a_run" -> "process"
      [] step = "process" -> "exit_session"

Unwind_retry(step) == step

Unwind_no_release(step) == "done"

\* where an exception raised at a statement takes control: out of the cell
\* when the transport was not entered, else through the __aexit__ of every
\* context manager of the async with that was entered
Unwind(step) ==
    IF step = "enter_transport" THEN "done"
    ELSE IF step = "enter_session" THEN "exit_transport"
    ELSE "exit_session"

\* the statements that await a request on the session
RequestSteps == {"initialize", "list_tools", "call_tool", "create_toolkit"}

NoPending == [kind |-> "none"]

\* params = {"a": 2, "b": 3}; session.call_tool("add", params)
call_tool_params == [tool |-> "add", a |-> 2, b |-> 3]

\* the request a statement sends
RequestOf(step) ==
    IF step = "call_tool"
        THEN [kind |-> "call_tool", tool |-> call_tool_params.tool,
              a |-> call_tool_params.a, b |-> call_tool_params.b]
        ELSE [kind |-> step]

\* what the agent may ask of the server while it answers
\* "1. Add 123223 and 456789  2. Get file content for 'ag2'."
AgentRequests ==
    {[kind |-> "agent_call_tool", tool |-> "add", a |-> 123223, b |-> 456789],
     [kind |-> "agent_read_resource", name |-> "ag2"]}

\* the text of a tool or resource result: content[0].text
ResultText(r) ==
    IF r.kind = "agent_read_resource"
        THEN get_server_file(r.name).value
        ELSE ToString(add(r.a, r.b))

\* an exception e leaves the current statement
Fail(event, e) ==
    /\ err' = e
    /\ trace' = Append(trace, event)
    /\ pc' = Unwind(pc)
    /\ pending' = NoPending
    /\ waited' = 0

\* a client cell is run: nothing of an earlier cell is in scope
StartCell(c) ==
    /\ pc \in {"idle", "done"}
    /\ runs < MaxRuns
    /\ runs' = runs + 1
    /\ cell' = c
    /\ pc' = "enter_transport"
    /\ transport' = "none"
    /\ session' = "none"
    /\ readTimeout' = NoTimeout
    /\ pending' = NoPending
    /\ waited' = 0
    /\ err' = "none"
    /\ trace' = <<>>
    /\ toolkit' = "none"
    /\ turns' = 0
    /\ out' = <<>>
    /\ earlier' = earlier \cup ({transportObj, sessionObj} \ {0})
    /\ UNCHANGED <<transportObj, sessionObj, sessionOn, nextId, srvVars, proxyVars>>

\* async with stdio_client(server_params) / sse_client(url=...): __aenter__
EnterTransport(ok) ==
    /\ pc = "enter_transport"
    /\ IF ok
         THEN /\ transport' = "open"
              /\ transportObj' = nextId + 1
              /\ nextId' = nextId + 1
              /\ trace' = Append(trace, "connect_ok")
              /\ pc' = NextStep(cell, pc)
              /\ UNCHANGED <<err, pending, waited>>
         ELSE /\ Fail("connect_fail", "connect_error")
              /\ UNCHANGED <<transport, transportObj, nextId>>
    /\ UNCHANGED <<cell, session, readTimeout, toolkit, turns, out, runs,
                   sessionObj, sessionOn, earlier, srvVars, proxyVars>>

EnterSession_reuse ==
    /\ pc = "enter_session"
    /\ IF sessionObj = 0
         THEN /\ sessionObj' = nextId + 1
              /\ sessionOn' = transportObj
              /\ nextId' = nextId + 1
              /\ session' = "open"
         ELSE /\ session' = "closed"
              /\ UNCHANGED <<sessionObj, sessionOn, nextId>>
    /\ readTimeout' = read_timeout_seconds(cell)
    /\ trace' = Append(trace, "session_enter")
    /\ pc' = NextStep(cell, pc)
    /\ UNCHANGED <<cell, transport, pending, waited, err, toolkit, turns, out,
                   runs, transportObj, earlier, srvVars, proxyVars>>

\* ClientSession(read, write, ...) as session: a new session object on the
\* cell's streams, constructed with the cell's read timeout
EnterSession ==
    /\ pc = "enter_session"
    /\ session' = "open"
    /\ sessionObj' = nextId + 1
    /\ sessionOn' = transportObj
    /\ nextId' = nextId + 1
    /\ readTimeout' = read_timeout_seconds(cell)
    /\ trace' = Append(trace, "session_enter")
    /\ pc' = NextStep(cell, pc)
    /\ UNCHANGED <<cell, transport, pending, waited, err, toolkit, turns, out,
                   runs, transportObj, earlier, srvVars, proxyVars>>

\* await session.initialize() / list_tools() / call_tool(...) /
\* create_toolkit(session=session): the request is sent
SendRequest ==
    /\ pc \in RequestSteps
    /\ pending = NoPending
    /\ pending' = RequestOf(pc)
    /\ waited' = 0
    /\ trace' = Append(trace, pc)
    /\ UNCHANGED <<cell, pc, transport, session, readTimeout, err, toolkit,
                   turns, out, runs, srvVars, proxyVars, objVars>>

\* a second passes while a request is awaited
Tick ==
    /\ pending # NoPending
    /\ IF readTimeout.set THEN waited < readTimeout.seconds ELSE waited < MaxWait
    /\ waited' = waited + 1
    /\ UNCHANGED <<cell, pc, transport, session, readTimeout, pending, err,
                   trace, toolkit, turns, out, runs, srvVars, proxyVars, objVars>>

\* the awaited request is answered in time; the statements up to the next
\* await run
RequestReturns ==
    /\ pending # NoPending
    /\ readTimeout.set => waited < readTimeout.seconds
    /\ pending' = NoPending
    /\ waited' = 0
    /\ CASE pending.kind = "initialize" ->
              /\ session' = "initialized"
              /\ trace' = Append(trace, "initialize_ok")
              /\ pc' = NextStep(cell, pc)
              /\ UNCHANGED <<toolkit, turns, out>>
         [] pending.kind = "list_tools" ->
              \* print_available_tools: the listing is printed
              /\ out' = out \o <<"Available tools:", "- add", "- multiply">>
              /\ trace' = trace \o <<"list_tools_ok", "print_tools">>
              /\ pc' = NextStep(cell, pc)
              /\ UNCHANGED <<session, toolkit, turns>>
         [] pending.kind = "call_tool" ->
              \* print(); print(f"Result ... '{add_result.content[0].text}'")
              /\ out' = out \o <<"", ResultText(pending)>>
              /\ trace' = trace \o <<"call_tool_ok", "print_result">>
              /\ pc' = NextStep(cell, pc)
              /\ UNCHANGED <<session, toolkit, turns>>
         [] pending.kind = "create_toolkit" ->
              /\ toolkit' = "created"
              /\ trace' = Append(trace, "create_toolkit_ok")
              /\ pc' = NextStep(cell, pc)
              /\ UNCHANGED <<session, turns, out>>
         [] pending.kind \in {"agent_call_tool", "agent_read_resource"} ->
              /\ turns' = turns + 1
              /\ out' = Append(out, ResultText(pending))
              /\ trace' = Append(trace, pending.kind \o "_ok")
              /\ UNCHANGED <<pc, session, toolkit>>
    /\ UNCHANGED <<cell, transport, readTimeout, err, runs, srvVars, proxyVars, objVars>>

\* the awaited request is answered with an error, or with a response that
\* cannot be used (unknown tool, malformed arguments or response)
RequestRaises ==
    /\ pending # NoPending
    /\ readTimeout.set => waited < readTimeout.seconds
    /\ Fail(pending.kind \o "_fail", pending.kind \o "_error")
    /\ UNCHANGED <<cell, transport, session, readTimeout, toolkit, turns, out,
                   runs, srvVars, proxyVars, objVars>>

\* no answer within read_timeout_seconds: the request raises a timeout
RequestTimesOut ==
    /\ pending # NoPending
    /\ readTimeout.set
    /\ waited = readTimeout.seconds
    /\ Fail(pending.kind \o "_timeout", "timeout")
    /\ UNCHANGED <<cell, transport, session, readTimeout, toolkit, turns, out,
                   runs, srvVars, proxyVars, objVars>>

\* agent = AssistantAgent(...); toolkit.register_for_llm(agent)
RegisterForLlm(ok) ==
    /\ pc = "register_for_llm"
    /\ IF ok
         THEN /\ toolkit' = "registered"
              /\ trace' = Append(trace, "register_for_llm")
              /\ pc' = NextStep(cell, pc)
              /\ UNCHANGED <<err, pending, waited>>
         ELSE /\ Fail("register_for_llm_fail", "agent_error")
              /\ UNCHANGED toolkit
    /\ UNCHANGED <<cell, transport, session, readTimeout, turns, out, runs,
                   srvVars, proxyVars, objVars>>

\* result = await agent.a_run(message=..., tools=toolkit.tools, max_turns=2,
\* user_input=False)
AgentRun(ok) ==
    /\ pc = "a_run"
    /\ IF ok
         THEN /\ turns' = 0
              /\ trace' = Append(trace, "a_run")
              /\ pc' = NextStep(cell, pc)
              /\ UNCHANGED <<err, pending, waited>>
         ELSE /\ Fail("a_run_fail", "agent_error")
              /\ UNCHANGED turns
    /\ UNCHANGED <<cell, transport, session, readTimeout, toolkit, out, runs,
                   srvVars, proxyVars, objVars>>

\* await result.process(): in a turn the agent calls a tool of the toolkit,
\* which sends the request on the session
AgentCallsTool(r) ==
    /\ pc = "process"
    /\ pending = NoPending
    /\ turns < a_run_args.max_turns
    /\ pending' = r
    /\ waited' = 0
    /\ trace' = Append(trace, r.kind)
    /\ UNCHANGED <<cell, pc, transport, session, readTimeout, err, toolkit,
                   turns, out, runs, srvVars, proxyVars, objVars>>

\* await result.process(): a turn in which the agent answers with text; with
\* user_input the run would then wait for the human's answer
AgentReplies ==
    /\ pc = "process"
    /\ pending = NoPending
    /\ turns < a_run_args.max_turns
    /\ turns' = turns + 1
    /\ trace' = Append(trace, "agent_reply")
    /\ pc' = IF a_run_args.user_input THEN "await_human" ELSE pc
    /\ UNCHANGED <<cell, transport, session, readTimeout, pending, waited,
                   err, toolkit, out, runs, srvVars, proxyVars, objVars>>

\* await result.process() returns (the conversation ended) or raises (the
\* model provider failed)
AgentFinishes(ok) ==
    /\ pc = "process"
    /\ pending = NoPending
    /\ IF ok
         THEN /\ trace' = Append(trace, "process_ok")
              /\ pc' = NextStep(cell, pc)
              /\ UNCHANGED <<err, pending, waited>>
         ELSE Fail("process_fail", "agent_error")
    /\ UNCHANGED <<cell, transport, session, readTimeout, toolkit, turns, out,
                   runs, srvVars, proxyVars, objVars>>

\* end of the async with: ClientSession.__aexit__
ExitSession ==
    /\ pc = "exit_session"
    /\ session' = "closed"
    /\ trace' = Append(trace, "session_close")
    /\ pc' = "exit_transport"
    /\ UNCHANGED <<cell, transport, readTimeout, pending, waited, err, toolkit,
                   turns, out, runs, srvVars, proxyVars, objVars>>

ExitTransport_leak ==
    /\ pc = "exit_transport"
    /\ pc' = "done"
    /\ UNCHANGED <<cell, transport, session, readTimeout, pending, waited, err,
                   trace, toolkit, turns, out, runs, srvVars, proxyVars, objVars>>

\* end of the async with: the transport's __aexit__ (the subprocess is
\* terminated, the HTTP connection closed); an exception then leaves the cell
ExitTransport ==
    /\ pc = "exit_transport"
    /\ transport' = "closed"
    /\ trace' = Append(trace, "transport_close")
    /\ pc' = "done"
    /\ UNCHANGED <<cell, session, readTimeout, pending, waited, err, toolkit,
                   turns, out, runs, srvVars, proxyVars, objVars>>

Next ==
    \/ \E c \in CellIds : StartCell(c)
    \/ \E ok \in BOOLEAN : EnterTransport(ok)
    \/ EnterSession
    \/ SendRequest
    \/ Tick
    \/ RequestReturns
    \/ RequestRaises
    \/ RequestTimesOut
    \/ \E ok \in BOOLEAN : RegisterForLlm(ok)
    \/ \E ok \in BOOLEAN : AgentRun(ok)
    \/ \E r \in AgentRequests : AgentCallsTool(r)
    \/ AgentReplies
    \/ \E ok \in BOOLEAN : AgentFinishes(ok)
    \/ ExitSession
    \/ ExitTransport

-----------------------------------------------------------------------------
SrvInit ==
    /\ srvArgv = <<>>
    /\ srvState = "not_started"
    /\ srvExit = 0
    /\ runTransport = "none"
    /\ lastReq = NoReq
    /\ prevReq = NoReq
    /\ lastResp = Returned(0)
    /\ files = files_literal

NoObjects ==
    /\ objects = <<>>
    /\ ret = 0
    /\ lastArgs = <<>>
    /\ proxyCalls = 0
    /\ genRuns = 0
    /\ genErr = FALSE
    /\ fsBefore = [exists |-> FALSE, entries |-> {}]

CellInit ==
    /\ cell = "none"
    /\ pc = "idle"
    /\ transport = "none"
    /\ session = "none"
    /\ readTimeout = NoTimeout
    /\ pending = NoPending
    /\ waited = 0
    /\ err = "none"
    /\ trace = <<>>
    /\ toolkit = "none"
    /\ turns = 0
    /\ out = <<>>
    /\ runs = 0
    /\ transportObj = 0
    /\ sessionObj = 0
    /\ sessionOn = 0
    /\ nextId = 0
    /\ earlier = {}

\* a fresh kernel in a fresh working directory, no server started
Init ==
    /\ SrvInit
    /\ fs = [exists |-> FALSE, entries |-> {}]
    /\ NoObjects
    /\ CellInit

\* the working directory as the notebook may find it: mcp_whatsapp absent,
\* or present with or without earlier entries
ProxyInit ==
    /\ SrvInit
    /\ \E e \in SUBSET OldEntries :
          fs \in {[exists |-> FALSE, entries |-> {}],
                  [exists |-> TRUE, entries |-> Stamp(e, 0)]}
    /\ NoObjects
    /\ CellInit

\* the server script, started from a terminal or as a subprocess, serving requests
ServerSpec == Init /\ [][ServerNext]_vars

\* the client cells of the notebooks, run one after the other
Spec == Init /\ [][Next]_vars

\* the same, with the kernel running the cell on and every awaited call
\* coming back (answered, failed or timed out)
FairSpec == Init /\ [][Next]_vars /\ WF_vars(Next)

\* the MCPProxy stub and the generation cell, run in any order
ProxySpec == ProxyInit /\ [][ProxyNext]_vars

-----------------------------------------------------------------------------
(* Claims about the server script, checked under ServerSpec *)

\* C1: whenever the server has answered an add request with arguments a and
\* b, the answer is the ordinary value a + b; add(2, 3) is 5 and
\* add(123223, 456789) is 580012.
C1_AddReturnsSum ==
    (lastReq.kind = "tool" /\ lastReq.name = "add") =>
        /\ ~lastResp.raised
        /\ lastResp.value = lastReq.a + lastReq.b
        /\ (lastReq.a = 2 /\ lastReq.b = 3) => lastResp.value = 5
        /\ (lastReq.a = 123223 /\ lastReq.b = 456789) => lastResp.value = 580012

C1_Witness ==
    /\ lastReq.kind = "tool" /\ lastReq.name = "add"
    /\ lastReq.a = 123223 /\ lastReq.b = 456789
    /\ lastResp.value = 580012

\* C2: a request for server-file://<name> with name a key of files is
\* answered with exactly the text stored under that key; for ag2 that is
\* "AG has released 0.8.5 version on 2025-04-03".
C2_KnownFileReturnsContent ==
    (lastReq.kind = "resource" /\ lastReq.name \in DOMAIN files) =>
        /\ lastResp = Returned(files[lastReq.name])
        /\ lastReq.name = "ag2" =>
               lastResp.value = "AG has released 0.8.5 version on 2025-04-03"

C2_Witness ==
    /\ lastReq.kind = "resource" /\ lastReq.name = "ag2"
    /\ lastResp.value = "AG has released 0.8.5 version on 2025-04-03"

\* C3: a request for server-file://<name> with name not a key of files does
\* not raise: it is answered with the ordinary value "File not found: "
\* followed by the name.
C3_UnknownFileReturnsMessage ==
    (lastReq.kind = "resource" /\ lastReq.name \notin DOMAIN files) =>
        /\ ~lastResp.raised
        /\ lastResp.value = "File not found: " \o lastReq.name
        /\ lastReq.name = "unknown" => lastResp.value = "File not found: unknown"

C3_Witness ==
    /\ lastReq.kind = "resource" /\ lastReq.name = "unknown"
    /\ lastResp = Returned("File not found: unknown")

\* C8: started with a single transport argument T out of stdio, sse and
\* streamable-http, the server runs with transport T.
C8_RunsDocumentedTransport ==
    (srvState # "not_started" /\ Len(srvArgv) = 1
        /\ srvArgv[1] \in DocumentedTransports) =>
        (srvState = "running" /\ runTransport = srvArgv[1])

\* the command lines made of exactly one accepted transport value
AcceptedArgv == {<<"stdio">>, <<"sse">>}

HelpRequested == \E i \in 1..Len(srvArgv) : srvArgv[i] = "-h"

-----------------------------------------------------------------------------
(* Claims about the MCPProxy stub, checked under ProxySpec *)

\* C4: MCPProxy.create(url, path, servers) returns a new object whose three
\* fields equal the three arguments, and the call changes nothing else: the
\* directory and the objects that existed before are as they were.
C4_CreateStoresArguments ==
    /\ [](ret # 0 =>
            /\ ret = Len(objects)
            /\ objects[ret].openapi_url = lastArgs[1]
            /\ objects[ret].client_source_path = lastArgs[2]
            /\ objects[ret].servers = lastArgs[3])
    /\ [][proxyCalls' # proxyCalls =>
            /\ fs' = fs
            /\ srvVars' = srvVars
            /\ cellVars' = cellVars
            /\ Len(objects') = Len(objects) + 1
            /\ SubSeq(objects', 1, Len(objects)) = objects]_vars

C4_Witness ==
    /\ ret = 2
    /\ fs.exists /\ fs.entries # {}
    /\ objects[2].openapi_url = "https://dev.infobip.com/openapi/products/whatsapp.json"
    /\ objects[2].client_source_path = "mcp_whatsapp"
    /\ objects[2].servers = <<[url |-> "https://api.infobip.com"]>>

-----------------------------------------------------------------------------
(* Claims about the client cells, checked under Spec *)

\* requests the body of a cell issues on the session
BodyRequests == {"list_tools", "call_tool", "create_toolkit",
                 "agent_call_tool", "agent_read_resource"}

\* events that record an exception raised to the cell
FailEvents == {"connect_fail", "initialize_fail", "initialize_timeout",
               "list_tools_fail", "list_tools_timeout",
               "call_tool_fail", "call_tool_timeout",
               "create_toolkit_fail", "create_toolkit_timeout",
               "register_for_llm_fail", "a_run_fail", "process_fail",
               "agent_call_tool_fail", "agent_call_tool_timeout",
               "agent_read_resource_fail", "agent_read_resource_timeout"}

CloseEvents == {"session_close", "transport_close"}

Occurs(e) == \E i \in 1..Len(trace) : trace[i] = e

Count(e) == Cardinality({i \in 1..Len(trace) : trace[i] = e})

\* C5: in every client cell the session is initialized after the transport
\* and the session were entered, every list_tools / call_tool /
\* create_toolkit / agent request is issued after initialize has completed
\* and before the session is closed, and after the session is closed only
\* the transport is closed.
C5_ConnectInitializeUseClose ==
    \A i \in 1..Len(trace) :
        /\ trace[i] = "initialize" =>
               /\ \E j \in 1..(i - 1) : trace[j] = "connect_ok"
               /\ \E j \in 1..(i - 1) : trace[j] = "session_enter"
        /\ trace[i] \in BodyRequests =>
               /\ \E j \in 1..(i - 1) : trace[j] = "initialize_ok"
               /\ \A k \in 1..(i - 1) : trace[k] \notin CloseEvents
        /\ trace[i] = "session_close" =>
               \A k \in (i + 1)..Len(trace) : trace[k] = "transport_close"

C5_Witness ==
    /\ pc = "done" /\ err = "none"
    /\ Occurs("initialize_ok") /\ Occurs("list_tools") /\ Occurs("call_tool")
    /\ Occurs("session_close")

\* C6: the transport a cell opened stays open up to the end of the scoped
\* block and is released there: once the cell has finished, with or without
\* an error, its transport is not open.
C6_TransportReleasedAtBlockEnd ==
    /\ pc = "done" => transport # "open"
    /\ (pc = "done" /\ Occurs("connect_ok")) => transport = "closed"
    /\ (Occurs("connect_ok") /\ pc # "done") => transport = "open"

C6_Witness ==
    /\ pc = "done" /\ err # "none"
    /\ TransportOf(cell) = "sse"
    /\ transport = "closed"

\* C7: an exception raised by connect, initialize, tool listing, a tool call
\* or any other step ends the cell with that error: connect and initialize
\* are attempted at most once, no step is performed after the failed one
\* except the release of the session and the transport, and the cell ends
\* carrying the error.
C7_FailureEndsCellNoRetry ==
    /\ Count("connect_ok") + Count("connect_fail") <= 1
    /\ Count("initialize") <= 1
    /\ \A i \in 1..Len(trace) : trace[i] \in FailEvents =>
           /\ \A j \in (i + 1)..Len(trace) : trace[j] \in CloseEvents
           /\ err # "none"
           /\ pc \in {"exit_session", "exit_transport", "done"}
           /\ pending = NoPending
    /\ (\A i \in 1..Len(trace) : trace[i] \notin FailEvents) => err = "none"

C7_Witness ==
    /\ pc = "done"
    /\ err = "call_tool_error"
    /\ Occurs("call_tool_fail") /\ ~Occurs("print_result")

\* C10 as stated: every session, over stdio or over SSE, is constructed with
\* a read timeout of 30 seconds.
C10_EverySessionTimeout30 ==
    session # "none" =>
        (readTimeout.set /\ readTimeout.seconds = ReadTimeoutSeconds)

\* C10 amended: every session opened over stdio is constructed with a read
\* timeout of 30 seconds, so a request on it (initialize included) is never
\* awaited longer and an initialize unanswered for 30 seconds fails with a
\* timeout; the sessions opened over SSE are constructed without a read
\* timeout.
C10_StdioSessionsTimeout30 ==
    /\ [](session # "none" =>
            /\ TransportOf(cell) = "stdio" =>
                   /\ readTimeout.set
                   /\ readTimeout.seconds = ReadTimeoutSeconds
                   /\ waited <= ReadTimeoutSeconds
            /\ TransportOf(cell) = "sse" => ~readTimeout.set)
    /\ [][(pending.kind = "initialize" /\ TransportOf(cell) = "stdio"
            /\ waited = ReadTimeoutSeconds)
          => (err' = "timeout" /\ pc' = "exit_session")]_vars

C10_Witness ==
    /\ TransportOf(cell) = "stdio"
    /\ err = "timeout"
    /\ Occurs("initialize_timeout")
    /\ pc = "done"

\* C11: every client cell run starts from the same cell state whatever ran
\* before it, opens a transport and constructs a session that no earlier
\* run created, constructs the session on that transport, and the session
\* is uninitialised when it is entered.
C11_FreshSessionEachRun ==
    /\ pc = "enter_transport" =>
           /\ transport = "none" /\ session = "none" /\ readTimeout = NoTimeout
           /\ pending = NoPending /\ waited = 0 /\ err = "none"
           /\ trace = <<>> /\ toolkit = "none" /\ turns = 0 /\ out = <<>>
    /\ transport # "none" => (transportObj # 0 /\ transportObj \notin earlier)
    /\ session # "none" =>
           /\ sessionObj # 0 /\ sessionObj \notin earlier
           /\ sessionObj # transportObj
           /\ sessionOn = transportObj
    /\ (Len(trace) > 0 /\ trace[Len(trace)] = "session_enter") => session = "open"
    /\ session = "initialized" => Count("initialize_ok") = 1

C11_Witness ==
    /\ runs = 2
    /\ earlier # {}
    /\ session = "initialized"
    /\ sessionObj \notin earlier /\ transportObj \notin earlier

AgentRequestKinds == {"agent_call_tool", "agent_read_resource"}

\* C12: in create_toolkit_and_run the toolkit is constructed before it is
\* registered with the agent, the agent run starts after the registration,
\* and every tool call the agent issues through the session comes after
\* create_toolkit and register_for_llm have completed.
C12_ToolkitBeforeAgentCalls ==
    /\ \A i \in 1..Len(trace) :
        /\ trace[i] = "register_for_llm" =>
               \E j \in 1..(i - 1) : trace[j] = "create_toolkit_ok"
        /\ trace[i] \in AgentRequestKinds \cup {"a_run"} =>
               \E k \in 1..(i - 1) :
                   /\ trace[k] = "register_for_llm"
                   /\ \E j \in 1..(k - 1) : trace[j] = "create_toolkit_ok"
    /\ pending.kind \in AgentRequestKinds => toolkit = "registered"

C12_Witness ==
    /\ pending.kind = "agent_call_tool"
    /\ toolkit = "registered"
    /\ Occurs("create_toolkit_ok") /\ Occurs("register_for_llm")

\* C13: whenever the server has answered a multiply request with arguments
\* a and b, the answer is the ordinary value a * b (3 * -2 is -6, and a
\* product with 0 is 0).
C13_MultiplyReturnsProduct ==
    (lastReq.kind = "tool" /\ lastReq.name = "multiply") =>
        /\ ~lastResp.raised
        /\ lastResp.value = lastReq.a * lastReq.b
        /\ (lastReq.a = 3 /\ lastReq.b = -2) => lastResp.value = -6
        /\ (lastReq.a = 0 \/ lastReq.b = 0) => lastResp.value = 0

C13_Witness ==
    /\ lastReq.kind = "tool" /\ lastReq.name = "multiply"
    /\ lastReq.a = 3 /\ lastReq.b = -2
    /\ lastResp.value = -6

\* position of the first occurrence of an event in the trace, 0 if none
IndexOf(e) ==
    IF Occurs(e) THEN CHOOSE i \in 1..Len(trace) :
                          /\ trace[i] = e
                          /\ \A j \in 1..(i - 1) : trace[j] # e
                 ELSE 0

\* C14: when a step fails after the session was entered (initialize, toolkit
\* construction, agent run, a tool call), the cell does not end before the
\* session and the transport are both released, each once, the session
\* first and the transport after it.
C14_ReleaseInReverseOrderOnFailure ==
    /\ (pc = "done" /\ err # "none" /\ Occurs("session_enter")) =>
           /\ session = "closed" /\ transport = "closed"
           /\ Count("session_close") = 1 /\ Count("transport_close") = 1
           /\ IndexOf("session_close") < IndexOf("transport_close")
    /\ (Occurs("transport_close") /\ Occurs("session_enter")) =>
           /\ Occurs("session_close")
           /\ IndexOf("session_close") < IndexOf("transport_close")
    /\ Occurs("session_close") => transport = "open" \/ Occurs("transport_close")

C14_Witness ==
    /\ pc = "done"
    /\ err = "agent_call_tool_error"
    /\ session = "closed" /\ transport = "closed"
    /\ trace[Len(trace) - 1] = "session_close"
    /\ trace[Len(trace)] = "transport_close"

\* turns the agent has taken: tool calls it issued and text replies it gave
AgentTurnEvents ==
    Count("agent_call_tool") + Count("agent_read_resource") + Count("agent_reply")

\* C15: the agent run takes at most max_turns = 2 turns, never waits for
\* human input, and, every awaited call coming back, create_toolkit_and_run
\* once entered returns or fails: control reaches the end of the async with.
C15_AgentRunBounded ==
    /\ [](/\ turns <= max_turns
          /\ AgentTurnEvents <= max_turns
          /\ a_run_args.max_turns = 2 /\ ~a_run_args.user_input
          /\ pc # "await_human")
    /\ (pc = "create_toolkit") ~> (pc = "exit_session")

C15_Witness ==
    /\ pc = "exit_session" /\ err = "none"
    /\ turns = max_turns
    /\ Occurs("process_ok")
    /\ Count("agent_call_tool") = 1 /\ Count("agent_reply") = 1

-----------------------------------------------------------------------------
(* Claims about the proxy generation cell, checked under ProxySpec *)

-----------------------------------------------------------------------------
(* Claims about the server as a whole, checked under ServerSpec *)

\* what the module-level definitions alone make of a request
ResponseTo(req) ==
    IF req.kind = "tool"
        THEN IF req.name = "add" THEN Returned(req.a + req.b)
                                 ELSE Returned(req.a * req.b)
        ELSE IF req.name \in DOMAIN files_literal
                 THEN Returned(files_literal[req.name])
                 ELSE Returned("File not found: " \o req.name)

\* C17: no request changes the files mapping, which stays the module-level
\* literal, and the answer to a request is a function of that request's
\* arguments alone, whatever requests were served before it.
C17_ServerStateless ==
    /\ [][files' = files]_vars
    /\ [](files = files_literal)
    /\ [](lastReq # NoReq => lastResp = ResponseTo(lastReq))

C17_Witness ==
    /\ prevReq # NoReq /\ prevReq.kind = "resource" /\ prevReq.name = "ag2"
    /\ lastReq.kind = "resource" /\ lastReq.name = "ag2"
    /\ lastResp = Returned(files_literal["ag2"])
    /\ files = files_literal

=============================================================================
